---- MODULE Spec2Model ----
(***************************************************************************)
(* The export job of src/index.js: generate-and-zip-users.                 *)
(*                                                                         *)
(*   writeUsersToNDJSON -> convertNDJSONToXLSX -> zipFiles                 *)
(*                                                                         *)
(* The handler is an async function on Node's single JavaScript thread.    *)
(* Its file streams do their work outside that thread: a write call only   *)
(* queues the line in the stream, and the open, the writes and the close   *)
(* of the file happen later, in an order the handler does not wait for.    *)
(* The model keeps one action per step of the handler and one action per   *)
(* step of each stream, and lets them interleave.                          *)
(*                                                                         *)
(* Files are modelled at the granularity of lines: a write of the stream   *)
(* puts one whole line into the file, a read takes one whole line.         *)
(***************************************************************************)
EXTENDS Integers, Sequences, FiniteSets, TLC

\* ---------------------------------------------------------------- bounds
\* totalUsers ranges over 0..MaxTotal and batchSize over 1..MaxBatch
\* (index.js sets 1000000 and 100000; the model runs the same loop on
\* small numbers).
MaxTotal == 3
MaxBatch == 3
\* Longest source file of the conversion-only specification SpecConv.
MaxLines == 3

\* The number of lines a write stream may hold unwritten before a writer that
\* honours backpressure would wait for 'drain' (the stream's highWaterMark,
\* in lines).
DrainBound == 1

\* The literal of the checkpoint test `(i + 1) % 100000 === 0`, scaled like
\* the two counts above.  The test does not read batchSize.
CheckpointEvery == 2

\* Invocations of the job handler.  Spec starts one (agenda.now is called
\* once); SpecOverlap lets the scheduler start the second one at any time.
Runs == {1, 2}

\* The callers of connectToDatabase.
Callers == {1, 2, 3}

VARIABLES
    totalUsers,   \* const totalUsers of writeUsersToNDJSON
    batchSize,    \* const batchSize of writeUsersToNDJSON
    pc,           \* pc[r]: where the handler of run r stands
    i,            \* i[r]: records written by the loop of run r
    ckpts,        \* ckpts[r]: the checkpoints run r has logged
    ws,           \* ws[r]: the fs.WriteStream on ndjsonPath of run r
    ndjson,       \* the lines of the file at ndjsonPath
    rs,           \* rs[r]: the fs.ReadStream / readline interface of run r
    wb,           \* wb[r]: the WorkbookWriter and its worksheet of run r
    xlsx,         \* the table in the file at xlsxPath
    zip,          \* zip[r]: the archiver and its output stream of run r
    zipFile,      \* the entries of the file at zipPath
    log,          \* log[r]: the lifecycle lines run r has printed
    raised,       \* raised[r]: the error a stage of run r has raised
    surfaced,     \* surfaced[r]: the error the handler of run r rejected with
    crashed,      \* the process died of an uncaught exception
    served,       \* what the last GET / was answered with
    dbInstance,   \* let dbInstance of db.js; 0 stands for null
    clients,      \* the client connections MongoClient.connect has made
    call,         \* call[c]: where the call of connectToDatabase by c stands
    ret           \* ret[c]: the instance the last call by c returned

\* The state of the endpoint and of db.js, which no step of a job touches.
offJob == <<served, dbInstance, clients, call, ret>>

vars == <<totalUsers, batchSize, pc, i, ckpts, ws, ndjson, rs, wb, xlsx,
          zip, zipFile, log, raised, surfaced, crashed, served, dbInstance,
          clients, call, ret>>

\* ------------------------------------------------------------ data model
Range(s) == {s[k] : k \in 1..Len(s)}

\* The keys of the object generateUser returns, in the order it lists them.
UserKeys ==
    <<"userId", "username", "email", "avatar", "password", "birthdate",
      "registeredAt">>

\* generateUser(): the n-th record of run r.  The faker values are opaque;
\* a value is identified by the record and the key it belongs to.
generateUser(r, n) == [keys |-> UserKeys, id |-> <<r, n>>]

\* JSON.stringify(user) + '\n': one line of text holding the object.
Stringify(user) == [kind |-> "rec", keys |-> user.keys, id |-> user.id]

\* The kinds of line a source file can hold:
\*   "empty"  the empty line             "ws"   a line of spaces only
\*   "bad"    text that is not JSON      "num"  JSON that is not an object (5)
\*   "rec"    a JSON object with the keys `keys`, in the order Object.keys
\*            lists them
TrimIsEmptyNoTrim(line) == line.kind = "empty"

\* line.trim(): empty for the empty line and for a whitespace-only line.
TrimIsEmpty(line) == line.kind \in {"empty", "ws"}

\* JSON.parse(line): throws a SyntaxError on text that is not JSON (the empty
\* text and blank text included), returns the number for a number and the
\* object for an object.
ParseThrows(line) == line.kind \in {"bad", "empty", "ws"}

\* Object.keys(user) of the parsed value: a number has no keys.
ObjectKeys(line) == IF line.kind = "rec" THEN line.keys ELSE <<>>

Empty == <<>>

\* The cell ExcelJS fills for column key k when the row's values are set from
\* the parsed value: value[k] when it is defined, no cell otherwise.
Cell(line, k) ==
    IF line.kind = "rec" /\ k \in Range(line.keys) THEN <<line.id, k>>
    ELSE Empty

RowOfOwnKeys(columns, line) ==
    [c \in 1..Len(line.keys) |-> <<line.id, line.keys[c]>>]

\* worksheet.addRow(user): one cell per column of the worksheet, by key.
RowOf(columns, line) == [c \in 1..Len(columns) |-> Cell(line, columns[c])]

\* The header row a columns assignment creates: one row with the header
\* labels when there is at least one column, none otherwise.
HeaderRows(columns) == IF Len(columns) > 0 THEN <<columns>> ELSE <<>>

\* fs.write at line offset p of a file: overwrites the line there, appends at
\* the end, and leaves a hole (unparseable bytes) when p lies past the end.
Hole == [kind |-> "bad", keys |-> <<>>, id |-> <<0, 0>>]

WriteAt(file, p, line) ==
    [k \in 1..(IF p + 1 > Len(file) THEN p + 1 ELSE Len(file)) |->
        IF k = p + 1 THEN line
        ELSE IF k <= Len(file) THEN file[k] ELSE Hole]

\* ------------------------------------------------------------ the stages
NoStream == [st |-> "none", ended |-> FALSE, buf |-> <<>>, pos |-> 0]
NoReader == [st |-> "none", pos |-> 0]
NoBook   == [isFirstRow |-> TRUE, rowCount |-> 0, columns |-> <<>>,
             hdr |-> <<>>, rows |-> <<>>]
NoTable  == [hdr |-> <<>>, rows |-> <<>>, committed |-> FALSE, by |-> 0]
NoZip    == [st |-> "none", next |-> 1, entries |-> <<>>]

InProgress(r) == pc[r] \notin {"Idle", "Completed", "Failed"}

\* The state of the job run as the state machine of the runner names it.
Stage(r) ==
    CASE pc[r] \in {"Generating", "Pausing", "Generated"} -> "Generating"
      [] pc[r] \in {"Reading", "Committing", "Converted"} -> "Converting"
      [] pc[r] \in {"Archiving", "Zipped"} -> "Archiving"
      [] OTHER -> pc[r]

\* agenda calls the handler: the start log, then writeUsersToNDJSON runs up
\* to its loop: the write stream is created, its file not yet open.
HandlerStart(r) ==
    /\ ~crashed
    /\ pc[r] = "Idle"
    /\ pc' = [pc EXCEPT ![r] = "Generating"]
    /\ log' = [log EXCEPT ![r] = Append(@, "Job Started")]
    /\ ws' = [ws EXCEPT ![r] = [NoStream EXCEPT !.st = "opening"]]
    /\ i' = [i EXCEPT ![r] = 0]
    /\ UNCHANGED offJob
    /\ UNCHANGED <<totalUsers, batchSize, ckpts, ndjson, rs, wb, xlsx, zip,
                   zipFile, raised, surfaced, crashed>>

\* agenda.now('generate-and-zip-users'), called once at process start.
RunNow == HandlerStart(1) /\ \A q \in Runs : pc[q] = "Idle"

\* The scheduler runs the job again; the handler has no guard of its own.
RunAgain == HandlerStart(2) /\ InProgress(1)

\* The scheduler runs the job a second time after the first run has ended.
RunNext == HandlerStart(2) /\ pc[1] \in {"Completed", "Failed"}

LoopDropsPartialBatch(n) == n < totalUsers - (totalUsers % batchSize)

\* The loop test `i < totalUsers`.
LoopContinues(n) == n < totalUsers

\* The checkpoint test `(i + 1) % 100000 === 0`, n = i + 1.
AtCheckpoint(n) == n % CheckpointEvery = 0

\* One iteration of the loop: generate, write the line to the stream, and at
\* a checkpoint log the batch index (i + 1) / batchSize and start the pause.
\* The quotient is a JavaScript number, kept here as the pair it divides.
GenWrite(r) ==
    /\ ~crashed
    /\ pc[r] = "Generating"
    /\ LoopContinues(i[r])
    /\ ws' = [ws EXCEPT ![r].buf =
                 Append(@, Stringify(generateUser(r, i[r] + 1)))]
    /\ i' = [i EXCEPT ![r] = @ + 1]
    /\ IF AtCheckpoint(i[r] + 1)
       THEN /\ ckpts' = [ckpts EXCEPT ![r] =
                   Append(@, [written |-> i[r] + 1,
                              batch |-> <<i[r] + 1, batchSize>>])]
            /\ pc' = [pc EXCEPT ![r] = "Pausing"]
       ELSE UNCHANGED <<ckpts, pc>>
    /\ UNCHANGED offJob
    /\ UNCHANGED <<totalUsers, batchSize, ndjson, rs, wb, xlsx, zip, zipFile,
                   log, raised, surfaced, crashed>>

\* The 500 ms timer of the checkpoint fires and the loop goes on.
PauseDone(r) ==
    /\ ~crashed
    /\ pc[r] = "Pausing"
    /\ pc' = [pc EXCEPT ![r] = "Generating"]
    /\ UNCHANGED offJob
    /\ UNCHANGED <<totalUsers, batchSize, i, ckpts, ws, ndjson, rs, wb, xlsx,
                   zip, zipFile, log, raised, surfaced, crashed>>

\* After the loop: stream.end(), the log, and the function returns.  end()
\* is not awaited: the stream may still hold lines and its file is open.
GenEnd(r) ==
    /\ ~crashed
    /\ pc[r] = "Generating"
    /\ ~LoopContinues(i[r])
    /\ ws' = [ws EXCEPT ![r].ended = TRUE]
    /\ log' = [log EXCEPT ![r] = Append(@, "Finished writing")]
    /\ pc' = [pc EXCEPT ![r] = "Generated"]
    /\ UNCHANGED offJob
    /\ UNCHANGED <<totalUsers, batchSize, i, ckpts, ndjson, rs, wb, xlsx,
                   zip, zipFile, raised, surfaced, crashed>>

\* ------------------------------------------- the write stream on ndjsonPath
\* The file is opened with flag 'w': it is truncated when the open happens.
WriterOpen(r) ==
    /\ ~crashed
    /\ ws[r].st = "opening"
    /\ ws' = [ws EXCEPT ![r].st = "open", ![r].pos = 0]
    /\ ndjson' = <<>>
    /\ UNCHANGED offJob
    /\ UNCHANGED <<totalUsers, batchSize, pc, i, ckpts, rs, wb, xlsx, zip,
                   zipFile, log, raised, surfaced, crashed>>

\* The stream writes its oldest buffered line at its own file position.
FlushOne(r) ==
    /\ ~crashed
    /\ ws[r].st = "open"
    /\ ws[r].buf # <<>>
    /\ ndjson' = WriteAt(ndjson, ws[r].pos, Head(ws[r].buf))
    /\ ws' = [ws EXCEPT ![r].buf = Tail(@), ![r].pos = @ + 1]
    /\ UNCHANGED offJob
    /\ UNCHANGED <<totalUsers, batchSize, pc, i, ckpts, rs, wb, xlsx, zip,
                   zipFile, log, raised, surfaced, crashed>>

\* After end(), once every line is written, the stream finishes and closes.
WriterClose(r) ==
    /\ ~crashed
    /\ ws[r].st = "open"
    /\ ws[r].ended
    /\ ws[r].buf = <<>>
    /\ ws' = [ws EXCEPT ![r].st = "closed"]
    /\ UNCHANGED offJob
    /\ UNCHANGED <<totalUsers, batchSize, pc, i, ckpts, ndjson, rs, wb, xlsx,
                   zip, zipFile, log, raised, surfaced, crashed>>

\* The open or a write of the stream fails.  The stream emits 'error'; no
\* listener is attached to it, so the event is an uncaught exception and the
\* process dies.  Nothing rejects the handler's promise.
WriterError(r) ==
    /\ ~crashed
    /\ \/ ws[r].st = "opening"
       \/ ws[r].st = "open" /\ ws[r].buf # <<>>
    /\ ws' = [ws EXCEPT ![r].st = "errored"]
    /\ raised' = [raised EXCEPT ![r] = "sink write"]
    /\ crashed' = TRUE
    /\ UNCHANGED offJob
    /\ UNCHANGED <<totalUsers, batchSize, pc, i, ckpts, ndjson, rs, wb, xlsx,
                   zip, zipFile, log, surfaced>>

\* ------------------------------------------------------ convertNDJSONToXLSX
\* The await of writeUsersToNDJSON returns and convertNDJSONToXLSX runs up to
\* its loop: the workbook writer (its file is created empty), the worksheet,
\* the read stream on ndjsonPath, isFirstRow and rowCount.
ConvStart(r) ==
    /\ ~crashed
    /\ pc[r] = "Generated"
    /\ wb' = [wb EXCEPT ![r] = NoBook]
    /\ xlsx' = NoTable
    /\ rs' = [rs EXCEPT ![r] = [st |-> "opening", pos |-> 0]]
    /\ pc' = [pc EXCEPT ![r] = "Reading"]
    /\ UNCHANGED offJob
    /\ UNCHANGED <<totalUsers, batchSize, i, ckpts, ws, ndjson, zip, zipFile,
                   log, raised, surfaced, crashed>>

\* The read stream opens the file.
ReaderOpen(r) ==
    /\ ~crashed
    /\ pc[r] = "Reading"
    /\ rs[r].st = "opening"
    /\ rs' = [rs EXCEPT ![r].st = "open"]
    /\ UNCHANGED offJob
    /\ UNCHANGED <<totalUsers, batchSize, pc, i, ckpts, ws, ndjson, wb, xlsx,
                   zip, zipFile, log, raised, surfaced, crashed>>

AddLinePrepends(book, line) ==
    LET cols == IF book.isFirstRow THEN ObjectKeys(line) ELSE book.columns
    IN  [isFirstRow |-> FALSE,
         rowCount   |-> book.rowCount + 1,
         columns    |-> cols,
         hdr        |-> IF book.isFirstRow THEN HeaderRows(cols) ELSE book.hdr,
         rows       |-> <<RowOf(cols, line)>> \o book.rows]

AddLineResetsColumns(book, line) ==
    [isFirstRow |-> FALSE,
     rowCount   |-> book.rowCount + 1,
     columns    |-> ObjectKeys(line),
     hdr        |-> HeaderRows(ObjectKeys(line)),
     rows       |-> Append(book.rows, RowOf(ObjectKeys(line), line))]

\* The worksheet after one non-blank, parseable line: the first one sets the
\* columns from its keys, every one adds and commits a row.
AddLine(book, line) ==
    LET cols == IF book.isFirstRow THEN ObjectKeys(line) ELSE book.columns
        hdr  == IF book.isFirstRow THEN HeaderRows(cols) ELSE book.hdr
    IN  [isFirstRow |-> FALSE,
         rowCount   |-> book.rowCount + 1,
         columns    |-> cols,
         hdr        |-> hdr,
         rows       |-> Append(book.rows, RowOf(cols, line))]

\* One turn of `for await (const line of rl)`: the next line of the file.
\* A blank line is skipped; a line JSON.parse throws on ends the function
\* with that error, which rejects the handler; any other line adds a row.
ReadLine(r) ==
    /\ ~crashed
    /\ pc[r] = "Reading"
    /\ rs[r].st = "open"
    /\ rs[r].pos < Len(ndjson)
    /\ LET line == ndjson[rs[r].pos + 1] IN
       /\ rs' = [rs EXCEPT ![r].pos = @ + 1]
       /\ IF TrimIsEmpty(line)
          THEN UNCHANGED <<wb, pc, raised, surfaced>>
          ELSE IF ParseThrows(line)
          THEN /\ pc' = [pc EXCEPT ![r] = "Failed"]
               /\ raised' = [raised EXCEPT ![r] = "parse"]
               /\ surfaced' = [surfaced EXCEPT ![r] = "parse"]
               /\ UNCHANGED wb
          ELSE /\ wb' = [wb EXCEPT ![r] = AddLine(@, line)]
               /\ UNCHANGED <<pc, raised, surfaced>>
    /\ UNCHANGED offJob
    /\ UNCHANGED <<totalUsers, batchSize, i, ckpts, ws, ndjson, xlsx, zip,
                   zipFile, log, crashed>>

\* The read stream finds no line past its position: the loop ends and
\* workbook.commit() is called.
ReadEOF(r) ==
    /\ ~crashed
    /\ pc[r] = "Reading"
    /\ rs[r].st = "open"
    /\ rs[r].pos >= Len(ndjson)
    /\ rs' = [rs EXCEPT ![r].st = "ended"]
    /\ pc' = [pc EXCEPT ![r] = "Committing"]
    /\ UNCHANGED offJob
    /\ UNCHANGED <<totalUsers, batchSize, i, ckpts, ws, ndjson, wb, xlsx, zip,
                   zipFile, log, raised, surfaced, crashed>>

\* workbook.commit() resolves: the table is in the file; the log, and the
\* function returns.
WorkbookCommit(r) ==
    /\ ~crashed
    /\ pc[r] = "Committing"
    /\ xlsx' = [hdr |-> wb[r].hdr, rows |-> wb[r].rows, committed |-> TRUE,
                by |-> r]
    /\ log' = [log EXCEPT ![r] = Append(@, "Finished converting")]
    /\ pc' = [pc EXCEPT ![r] = "Converted"]
    /\ UNCHANGED offJob
    /\ UNCHANGED <<totalUsers, batchSize, i, ckpts, ws, ndjson, rs, wb, zip,
                   zipFile, raised, surfaced, crashed>>

\* ------------------------------------------------------------------ zipFiles
ZipNames == <<"users_stream.ndjson", "users_stream.xlsx">>

\* The size of the source file of the k-th entry when the archiver reads it.
SourceSize(k) ==
    IF k = 1 THEN Len(ndjson) ELSE Len(xlsx.hdr) + Len(xlsx.rows)

\* The await of convertNDJSONToXLSX returns and zipFiles runs to its end: the
\* output stream (its file is created empty), the archiver, the two
\* listeners, the pipe, the two queued files and finalize().
ZipStart(r) ==
    /\ ~crashed
    /\ pc[r] = "Converted"
    /\ zip' = [zip EXCEPT ![r] = [st |-> "open", next |-> 1, entries |-> <<>>]]
    /\ zipFile' = <<>>
    /\ pc' = [pc EXCEPT ![r] = "Archiving"]
    /\ UNCHANGED offJob
    /\ UNCHANGED <<totalUsers, batchSize, i, ckpts, ws, ndjson, rs, wb, xlsx,
                   log, raised, surfaced, crashed>>

\* The archiver reads the next queued file and appends it as an entry.
ZipEntry(r) ==
    /\ ~crashed
    /\ pc[r] = "Archiving"
    /\ zip[r].st = "open"
    /\ zip[r].next <= Len(ZipNames)
    /\ LET k == zip[r].next IN
       zip' = [zip EXCEPT ![r].entries =
                  Append(@, [name |-> ZipNames[k], size |-> SourceSize(k)]),
                          ![r].next = @ + 1]
    /\ UNCHANGED offJob
    /\ UNCHANGED <<totalUsers, batchSize, pc, i, ckpts, ws, ndjson, rs, wb,
                   xlsx, zipFile, log, raised, surfaced, crashed>>

\* The next queued file is gone when the archiver stats it.  The archiver
\* drops the entry and emits 'warning', not 'error'; zipFiles listens to
\* neither, and the archive goes on without the entry.
ZipStatFails(r) ==
    /\ ~crashed
    /\ pc[r] = "Archiving"
    /\ zip[r].st = "open"
    /\ zip[r].next <= Len(ZipNames)
    /\ zip' = [zip EXCEPT ![r].next = @ + 1]
    /\ raised' = [raised EXCEPT ![r] = "source missing"]
    /\ UNCHANGED offJob
    /\ UNCHANGED <<totalUsers, batchSize, pc, i, ckpts, ws, ndjson, rs, wb,
                   xlsx, zipFile, log, surfaced, crashed>>

\* finalize() takes effect: the queue is empty, the archiver ends and the pipe
\* ends the output stream, which still has the last bytes to write.
ZipFinalized(r) ==
    /\ ~crashed
    /\ pc[r] = "Archiving"
    /\ zip[r].st = "open"
    /\ zip[r].next > Len(ZipNames)
    /\ zip' = [zip EXCEPT ![r].st = "finalized"]
    /\ UNCHANGED offJob
    /\ UNCHANGED <<totalUsers, batchSize, pc, i, ckpts, ws, ndjson, rs, wb,
                   xlsx, zipFile, log, raised, surfaced, crashed>>

ZipResolvesAtFinalize(r) ==
    /\ ~crashed
    /\ pc[r] = "Archiving"
    /\ zip[r].st = "finalized"
    /\ log' = [log EXCEPT ![r] = Append(@, "Zip created")]
    /\ pc' = [pc EXCEPT ![r] = "Zipped"]
    /\ UNCHANGED offJob
    /\ UNCHANGED <<totalUsers, batchSize, i, ckpts, ws, ndjson, rs, wb, xlsx,
                   zip, zipFile, raised, surfaced, crashed>>

\* The output stream has written the archive and emits 'close': the listener
\* logs and calls resolve().
ZipClose(r) ==
    /\ ~crashed
    /\ pc[r] = "Archiving"
    /\ zip[r].st = "finalized"
    /\ zip' = [zip EXCEPT ![r].st = "closed"]
    /\ zipFile' = zip[r].entries
    /\ log' = [log EXCEPT ![r] = Append(@, "Zip created")]
    /\ pc' = [pc EXCEPT ![r] = "Zipped"]
    /\ UNCHANGED offJob
    /\ UNCHANGED <<totalUsers, batchSize, i, ckpts, ws, ndjson, rs, wb, xlsx,
                   raised, surfaced, crashed>>

\* The archiver emits 'error': the listener rejects the promise of zipFiles,
\* which rejects the handler.
ArchiveError(r) ==
    /\ ~crashed
    /\ pc[r] = "Archiving"
    /\ zip[r].st = "open"
    /\ zip' = [zip EXCEPT ![r].st = "errored"]
    /\ raised' = [raised EXCEPT ![r] = "archive"]
    /\ surfaced' = [surfaced EXCEPT ![r] = "archive"]
    /\ pc' = [pc EXCEPT ![r] = "Failed"]
    /\ UNCHANGED offJob
    /\ UNCHANGED <<totalUsers, batchSize, i, ckpts, ws, ndjson, rs, wb, xlsx,
                   zipFile, log, crashed>>

\* The output stream emits 'error' (the destination cannot be written).  It
\* has a 'close' listener only: the event is an uncaught exception.
OutputError(r) ==
    /\ ~crashed
    /\ pc[r] = "Archiving"
    /\ zip[r].st \in {"open", "finalized"}
    /\ zip' = [zip EXCEPT ![r].st = "errored"]
    /\ raised' = [raised EXCEPT ![r] = "zip write"]
    /\ crashed' = TRUE
    /\ UNCHANGED offJob
    /\ UNCHANGED <<totalUsers, batchSize, pc, i, ckpts, ws, ndjson, rs, wb,
                   xlsx, zipFile, log, surfaced>>

\* The await of zipFiles returns: the end log, and the handler resolves.
JobEnd(r) ==
    /\ ~crashed
    /\ pc[r] = "Zipped"
    /\ log' = [log EXCEPT ![r] = Append(@, "Job Completed")]
    /\ pc' = [pc EXCEPT ![r] = "Completed"]
    /\ UNCHANGED offJob
    /\ UNCHANGED <<totalUsers, batchSize, i, ckpts, ws, ndjson, rs, wb, xlsx,
                   zip, zipFile, raised, surfaced, crashed>>

\* ---------------------------------------------------------------- app.get
\* The text the handler of GET / sends.
Ack == "Server is running. Job is processing in background."

jobVars ==
    <<totalUsers, batchSize, pc, i, ckpts, ws, ndjson, rs, wb, xlsx, zip,
      zipFile, log, raised, surfaced, crashed>>

\* A client requests GET /.  The handler sends the text whatever the job is
\* doing; a process that died of an uncaught exception listens no more, and
\* the request gets no response.
HttpGet ==
    /\ served' = IF crashed THEN "no response" ELSE Ack
    /\ UNCHANGED <<dbInstance, clients, call, ret>>
    /\ UNCHANGED jobVars

\* ------------------------------------------------------- connectToDatabase
\* A caller enters connectToDatabase: with dbInstance set it returns it; with
\* dbInstance null it starts MongoClient.connect and waits for it.
DbCall(c) ==
    /\ call[c] # "connecting"
    /\ IF dbInstance # 0
          THEN /\ ret' = [ret EXCEPT ![c] = dbInstance]
               /\ call' = [call EXCEPT ![c] = "returned"]
          ELSE /\ call' = [call EXCEPT ![c] = "connecting"]
               /\ UNCHANGED ret
    /\ UNCHANGED <<served, dbInstance, clients>>
    /\ UNCHANGED jobVars

\* MongoClient.connect resolves with a new client: its db is stored in
\* dbInstance and returned.  An instance is named by the number of the
\* connection it belongs to.
DbConnected(c) ==
    /\ call[c] = "connecting"
    /\ clients' = clients + 1
    /\ dbInstance' = clients + 1
    /\ ret' = [ret EXCEPT ![c] = clients + 1]
    /\ call' = [call EXCEPT ![c] = "returned"]
    /\ UNCHANGED served
    /\ UNCHANGED jobVars

\* MongoClient.connect rejects: the call throws, dbInstance is as it was.
DbConnectFails(c) ==
    /\ call[c] = "connecting"
    /\ call' = [call EXCEPT ![c] = "threw"]
    /\ UNCHANGED <<ret, served, dbInstance, clients>>
    /\ UNCHANGED jobVars

\* ------------------------------------------------------- the specifications
NoStreams ==
    /\ i = [r \in Runs |-> 0]
    /\ ckpts = [r \in Runs |-> <<>>]
    /\ ws = [r \in Runs |-> NoStream]
    /\ rs = [r \in Runs |-> NoReader]
    /\ wb = [r \in Runs |-> NoBook]
    /\ zip = [r \in Runs |-> NoZip]
    /\ log = [r \in Runs |-> <<>>]
    /\ raised = [r \in Runs |-> "none"]
    /\ surfaced = [r \in Runs |-> "none"]
    /\ crashed = FALSE

\* No request has been answered and connectToDatabase has not been called.
NoCalls ==
    /\ served = "none"
    /\ dbInstance = 0
    /\ clients = 0
    /\ call = [c \in Callers |-> "idle"]
    /\ ret = [c \in Callers |-> 0]

\* The process has started: the data directory exists, no job has run.
Init ==
    /\ totalUsers \in 0..MaxTotal
    /\ batchSize \in 1..MaxBatch
    /\ pc = [r \in Runs |-> "Idle"]
    /\ NoStreams
    /\ NoCalls
    /\ ndjson = <<>>
    /\ xlsx = NoTable
    /\ zipFile = <<>>

Step(r) ==
    \/ GenWrite(r) \/ PauseDone(r) \/ GenEnd(r)
    \/ WriterOpen(r) \/ FlushOne(r) \/ WriterClose(r) \/ WriterError(r)
    \/ ConvStart(r) \/ ReaderOpen(r) \/ ReadLine(r) \/ ReadEOF(r)
    \/ WorkbookCommit(r)
    \/ ZipStart(r) \/ ZipEntry(r) \/ ZipStatFails(r) \/ ZipFinalized(r)
    \/ ZipClose(r) \/ ArchiveError(r) \/ OutputError(r) \/ JobEnd(r)

\* One process, one agenda.now.
Next == RunNow \/ \E r \in Runs : Step(r)

Spec == Init /\ [][Next]_vars

\* The event loop runs every timer and every stream event that is due, and the
\* handler goes on after each await that has settled: each step of a run that
\* stays possible is taken.  Errors of the streams are the environment's.
Fairness ==
    \A r \in Runs :
        /\ WF_vars(GenWrite(r)) /\ WF_vars(PauseDone(r)) /\ WF_vars(GenEnd(r))
        /\ WF_vars(WriterOpen(r)) /\ WF_vars(FlushOne(r))
        /\ WF_vars(WriterClose(r))
        /\ WF_vars(ConvStart(r)) /\ WF_vars(ReaderOpen(r))
        /\ WF_vars(ReadLine(r)) /\ WF_vars(ReadEOF(r))
        /\ WF_vars(WorkbookCommit(r))
        /\ WF_vars(ZipStart(r)) /\ WF_vars(ZipEntry(r))
        /\ WF_vars(ZipFinalized(r)) /\ WF_vars(ZipClose(r))
        /\ WF_vars(JobEnd(r))

SpecFair == Init /\ [][Next]_vars /\ Fairness

\* The steps of a run in which no stream and no file fails.
StepOk(r) ==
    \/ GenWrite(r) \/ PauseDone(r) \/ GenEnd(r)
    \/ WriterOpen(r) \/ FlushOne(r) \/ WriterClose(r)
    \/ ConvStart(r) \/ ReaderOpen(r) \/ ReadLine(r) \/ ReadEOF(r)
    \/ WorkbookCommit(r)
    \/ ZipStart(r) \/ ZipEntry(r) \/ ZipFinalized(r) \/ ZipClose(r)
    \/ JobEnd(r)

\* The scheduler may call the handler again while the first run goes on; no
\* stream and no file fails.
NextOverlap == RunNow \/ RunAgain \/ \E r \in Runs : StepOk(r)

\* The counts of the overlap specification: the configuration of index.js in
\* small, batchSize equal to the literal of the checkpoint test and totalUsers
\* a multiple of it, so that the first run has a pacing pause.
InitOverlap ==
    /\ Init
    /\ batchSize = CheckpointEvery
    /\ totalUsers = CheckpointEvery

SpecOverlap == InitOverlap /\ [][NextOverlap]_vars

\* convertNDJSONToXLSX alone, on every source file of at most MaxLines lines.
LineShapes ==
    {[kind |-> k, keys |-> <<>>] : k \in {"empty", "ws", "bad", "num"}}
    \cup {[kind |-> "rec", keys |-> ks] :
            ks \in {<<"a", "b">>, <<"b", "a">>, <<"a">>, <<"a", "b", "c">>}}

SourceFiles ==
    {[k \in DOMAIN f |-> [kind |-> f[k].kind, keys |-> f[k].keys, id |-> <<0, k>>]] :
        f \in UNION {[1..n -> LineShapes] : n \in 0..MaxLines}}

\* The handler is about to call convertNDJSONToXLSX; the file at ndjsonPath is
\* a given source and no write stream is writing to it.
InitConv ==
    /\ totalUsers = 0
    /\ batchSize = 1
    /\ pc = [r \in Runs |-> IF r = 1 THEN "Generated" ELSE "Idle"]
    /\ NoStreams
    /\ NoCalls
    /\ ndjson \in SourceFiles
    /\ xlsx = NoTable
    /\ zipFile = <<>>

NextConv ==
    \E r \in Runs :
          \/ ConvStart(r) \/ ReaderOpen(r) \/ ReadLine(r) \/ ReadEOF(r)
          \/ WorkbookCommit(r)

SpecConv == InitConv /\ [][NextConv]_vars

\* The whole pipeline on the lines it generates itself (Init) and on every
\* given source file (InitConv).
InitPipe == Init \/ InitConv

SpecPipe == InitPipe /\ [][Next]_vars

\* Two runs in one process, the second started after the first has ended,
\* with no failure of a stream or a file.
NextSeq == RunNow \/ RunNext \/ \E r \in Runs : StepOk(r)

SpecSeq == Init /\ [][NextSeq]_vars

\* The job and the clients of the endpoint.
NextHttp == Next \/ HttpGet

SpecHttp == Init /\ [][NextHttp]_vars

\* The callers of connectToDatabase; their calls may overlap.
NextDb ==
    \E c \in Callers : DbCall(c) \/ DbConnected(c) \/ DbConnectFails(c)

SpecDb == Init /\ [][NextDb]_vars

\* ================================================================ the claims
\* What the claims call a blank line, a record line, and the non-blank lines
\* of a file, stated without the operators that model the code.
IsBlankLine(l) == l.kind \in {"empty", "ws"}
IsRecordLine(l) == l.kind = "rec"
NonBlank(file) == SelectSeq(file, LAMBDA l : ~IsBlankLine(l))
AllWellFormed(file) == \A k \in 1..Len(file) : IsBlankLine(file[k]) \/ IsRecordLine(file[k])
HasKey(l, k) == \E c \in 1..Len(l.keys) : l.keys[c] = k

\* C1 (as claimed): a stage starts only after the artifact of the stage before
\* it is flushed and closed: the read stream of the conversion has the file
\* open only when the write stream of the generation has written every line
\* and closed, and zipFiles has started only when the workbook of the same run
\* is committed.
C1_StagesStartAfterClose ==
    \A r \in Runs :
        /\ rs[r].st \in {"open", "ended"} =>
               ws[r].st = "closed" /\ ws[r].buf = <<>>
        /\ zip[r].st # "none" => xlsx.committed /\ xlsx.by = r

\* C2: once the generation has finished and its write stream has closed, the
\* line-stream file holds exactly totalUsers lines, one for each record the
\* run generated, those of a trailing partial batch included.
C2_ClosedFileHasTotalLines ==
    \A r \in Runs :
        ws[r].st = "closed" =>
            /\ Len(ndjson) = totalUsers
            /\ \A n \in 1..totalUsers :
                   \E k \in 1..Len(ndjson) :
                       IsRecordLine(ndjson[k]) /\ ndjson[k].id = <<r, n>>

C2_Witness ==
    \E r \in Runs :
        /\ ws[r].st = "closed"
        /\ totalUsers = 3 /\ batchSize = 2
        /\ Len(ndjson) = 3

C4_CompletedTableHasTotalRows ==
    \A r \in Runs :
        pc[r] = "Completed" =>
            xlsx.committed /\ Len(xlsx.rows) = totalUsers

FirstLine == NonBlank(ndjson)[1]

C7_RowsProjectedOnSchema ==
    \A r \in Runs :
        LET lines == NonBlank(SubSeq(ndjson, 1, rs[r].pos)) IN
        (rs[r].st # "none" /\ \A j \in 1..Len(lines) : IsRecordLine(lines[j])) =>
            /\ pc[r] # "Failed"
            /\ Len(wb[r].rows) = Len(lines)
            /\ \A j \in 1..Len(lines) :
                   /\ Len(wb[r].rows[j]) = Len(lines[1].keys)
                   /\ \A c \in 1..Len(lines[1].keys) :
                          wb[r].rows[j][c] =
                              IF HasKey(lines[j], lines[1].keys[c])
                              THEN <<lines[j].id, lines[1].keys[c]>>
                              ELSE <<>>
            /\ Len(lines) >= 1 => wb[r].hdr = <<lines[1].keys>>

C7_Witness ==
    /\ pc[1] = "Converted"
    /\ AllWellFormed(ndjson)
    /\ Len(xlsx.rows) = 3
    /\ Len(xlsx.hdr[1]) = 2
    /\ \E j \in 2..3 : \E c \in 1..2 : xlsx.rows[j][c] = <<>>
    /\ \E j \in 2..3 : HasKey(NonBlank(ndjson)[j], "c")

\* C8 (as claimed): a non-blank line that is not a JSON record makes the
\* conversion fail with a parse error at that line: once the reader has passed
\* such a line the run is Failed by a parse error, and the rows are those of
\* the lines before it.
C8_NonRecordLineFails ==
    \A r \in Runs :
        \A k \in 1..rs[r].pos :
            (~IsBlankLine(ndjson[k]) /\ ~IsRecordLine(ndjson[k])
             /\ AllWellFormed(SubSeq(ndjson, 1, k - 1))) =>
                /\ pc[r] = "Failed"
                /\ raised[r] = "parse"
                /\ rs[r].pos = k
                /\ Len(wb[r].rows) = Len(NonBlank(SubSeq(ndjson, 1, k - 1)))

\* C9 (as claimed): an error a stage raises while the run is under way takes
\* the run to Failed, and that error is the one the handler rejects with.
C9_StageErrorFailsRun ==
    \A r \in Runs :
        (raised[r] # "none" /\ pc[r] # "Completed") =>
            pc[r] = "Failed" /\ surfaced[r] = raised[r]

\* C10 (as claimed): at most one run is under way at any time.
C10_OneRunAtATime ==
    \A r \in Runs : \A q \in Runs :
        r # q => ~(InProgress(r) /\ InProgress(q))

\* C11: zipFiles has resolved, and 'Zip created' is logged, only when the
\* output stream has closed with the whole archive in the file; finalize()
\* having taken effect is not enough.  So the end log of the job comes after
\* the close of the archive file.
C11_ResolvedOnlyAfterClose ==
    \A r \in Runs :
        (\/ pc[r] \in {"Zipped", "Completed"}
         \/ \E k \in 1..Len(log[r]) : log[r][k] \in {"Zip created", "Job Completed"})
            => /\ zip[r].st = "closed"
               /\ zipFile = zip[r].entries

C11_Witness ==
    \E r \in Runs :
        /\ pc[r] = "Completed"
        /\ zip[r].st = "closed"
        /\ Len(zipFile) = 2
        /\ log[r][Len(log[r])] = "Job Completed"
        /\ log[r][Len(log[r]) - 1] = "Zip created"

\* C12 (as claimed): every run that has started reaches Completed or Failed,
\* also when a stream reports an error.
C12_EveryRunEnds ==
    \A r \in Runs : (pc[r] # "Idle") ~> (pc[r] \in {"Completed", "Failed"})

\* C13 (as claimed): any error of the archiving (a source file missing or
\* unreadable, the destination not writable) makes zipFiles reject with it and
\* takes the run to Failed.
C13_ArchiveErrorRejects ==
    \A r \in Runs :
        raised[r] \in {"source missing", "archive", "zip write"} =>
            /\ pc[r] = "Failed"
            /\ surfaced[r] = raised[r]
            /\ ~crashed

\* C14 (as claimed): a write failure of the line-stream sink rejects
\* writeUsersToNDJSON: the run is Failed with that error, 'Finished writing'
\* was not logged and the conversion has not started.
C14_SinkErrorRejects ==
    \A r \in Runs :
        raised[r] = "sink write" =>
            /\ pc[r] = "Failed"
            /\ surfaced[r] = "sink write"
            /\ \A k \in 1..Len(log[r]) : log[r][k] # "Finished writing"
            /\ rs[r].st = "none"

\* C15: order is kept through the pipeline.  The k-th line of the file is the
\* k-th record the run generated; the j-th row of the worksheet is made from
\* the j-th non-blank line the reader has read; the entries of the archive
\* follow the order in which the files were queued, the line-stream file
\* before the table file.
NameIndex(n) == CHOOSE k \in 1..2 : <<"users_stream.ndjson", "users_stream.xlsx">>[k] = n

C16_UnflushedLinesBounded ==
    \A r \in Runs : Len(ws[r].buf) <= DrainBound

\* C17 (as claimed): when zipFiles has completed, the archive holds exactly
\* two entries, users_stream.ndjson and users_stream.xlsx in that order, and
\* the size of each is the size of its source file once that file is closed.
C17_TwoEntriesOfFullSize ==
    \A r \in Runs :
        pc[r] \in {"Zipped", "Completed"} =>
            /\ Len(zipFile) = 2
            /\ zipFile[1].name = "users_stream.ndjson"
            /\ zipFile[2].name = "users_stream.xlsx"
            /\ zipFile[2].size = Len(xlsx.hdr) + Len(xlsx.rows)
            /\ ws[r].st = "closed" => zipFile[1].size = Len(ndjson)

\* C18 (as claimed): after two runs one after the other, with both write
\* streams closed, the line-stream file holds exactly totalUsers lines, all of
\* them written by the second run.
C18_SecondRunOverwrites ==
    (ws[1].st = "closed" /\ ws[2].st = "closed") =>
        /\ Len(ndjson) = totalUsers
        /\ \A k \in 1..Len(ndjson) :
               IsRecordLine(ndjson[k]) /\ ndjson[k].id = <<2, k>>

\* C19 (as claimed): every GET / that has been answered got the static text,
\* whatever the state or outcome of the job.
C19_SameResponse == served \in {"none", Ack}

\* C20 (as claimed): connectToDatabase makes at most one client connection
\* (so dbInstance is assigned at most once), and all calls that have returned
\* returned the same instance.
C20_OneConnection ==
    /\ clients <= 1
    /\ \A c, d \in Callers :
           (call[c] = "returned" /\ call[d] = "returned") => ret[c] = ret[d]

====
